---- MODULE Spec2Model ----
(***************************************************************************)
(* A model of the Wikipedia scraper (src/main.py): the WikipediaScraper    *)
(* object, its page-to-record extraction, its link harvest, the            *)
(* breadth-first crawl and the part of main() that drives them.            *)
(*                                                                         *)
(* The browser session is the environment.  Its observable state is the    *)
(* address of the loaded page (driver.current_url); it changes only when   *)
(* the program asks the driver to load a page or submits the search form.  *)
(* Every load and every element lookup may fail; which lookups fail is     *)
(* chosen nondeterministically at each call.                               *)
(*                                                                         *)
(* A URL is a record [base, ns, id]: the text of the URL is base, then the *)
(* namespace marker ns (possibly empty), then the page name number id.     *)
(* A text is a sequence of one-character strings.                          *)
(***************************************************************************)
EXTENDS Integers, Sequences, FiniteSets, TLC

(***************************************************************************)
(* Bounds of the model.                                                    *)
(***************************************************************************)
MaxDepthArg == 2
MaxArticlesArg == 5
SeedLinks == 30
MaxFailedIterations == 1
MaxAnchors == 4
MaxLinksArg == 3
MaxCategories == 2
MaxCategoryLen == 2

(***************************************************************************)
(* Program constants.                                                      *)
(***************************************************************************)
ArticlePrefix == "https://en.wikipedia.org/wiki/"
CrawlMaxLinks == 10
NavigateSleep == 2
SearchSleep == 3
SummarySentinel == "Summary not found"
Markers == {"Special:", "Category:", "File:", "Help:", "Wikipedia:", "Talk:"}

(***************************************************************************)
(* URLs.                                                                   *)
(***************************************************************************)
Url(b, n, i) == [base |-> b, ns |-> n, id |-> i]
Art(i) == Url(ArticlePrefix, "", i)
NoHref == Url("", "", 0)
MainPage == Art(0)
SeedMany == Art(100)
SeedNone == Art(101)
SeedFew == Art(102)
SearchResults == Url("https://en.wikipedia.org/w/index.php?search=", "", 0)
Elsewhere == Url("https://example.org/", "", 0)

\* str.startswith(prefix) on the text of a URL: the text starts with base, and
\* no base of the model is a proper prefix or extension of ArticlePrefix.
StartsWith(url, prefix) == url.base = prefix

\* "wikipedia.org" in url
OnWikipedia(url) == url.base \in {ArticlePrefix, SearchResults.base}

\* marker in href: the only place of a URL that holds a marker is ns.
Contains(href, marker) == href.ns = marker

\* not href: None or the empty string.
IsEmptyHref(href) == href.base = "" /\ href.ns = "" /\ href.id = 0

(***************************************************************************)
(* The site: the anchors that the selector of extract_links_from_article   *)
(* finds on each page, in document order.                                  *)
(***************************************************************************)
Anchor(h) == [text |-> <<"l">>, href |-> h]

LinkElements(url) ==
    IF url = SeedMany THEN [i \in 1..SeedLinks |-> Anchor(Art(i))]
    ELSE IF url = SeedNone
        THEN <<Anchor(Url(ArticlePrefix, "Talk:", 1)), Anchor(NoHref),
               Anchor(Url(ArticlePrefix, "Category:", 2))>>
    ELSE IF url = SeedFew
        THEN <<Anchor(Art(1)), Anchor(Url(ArticlePrefix, "File:", 3)), Anchor(Art(1)),
               Anchor(SeedFew), Anchor(Art(2))>>
    ELSE IF url = MainPage THEN <<Anchor(SeedFew), Anchor(Art(1))>>
    ELSE IF StartsWith(url, ArticlePrefix) /\ url.ns = "" /\ url.id \in 1..SeedLinks
        THEN <<Anchor(Art(1)), Anchor(Art(200 + url.id)), Anchor(SeedFew),
               Anchor(Art(300 + url.id))>>
    ELSE <<>>

(***************************************************************************)
(* extract_links_from_article                                              *)
(***************************************************************************)
IsArticleLink(href) ==
    /\ ~IsEmptyHref(href)
    /\ \A m \in Markers : ~Contains(href, m)

\* The loop with the test of the cap made before the append of the next link.
RECURSIVE FilterLinks_late(_, _, _)
FilterLinks_late(link_elements, article_links, max_links) ==
    IF link_elements = <<>> THEN article_links
    ELSE LET link == Head(link_elements)
             appended == Append(article_links, [text |-> link.text, href |-> link.href])
         IN IF IsArticleLink(link.href)
            THEN IF Len(article_links) >= max_links
                 THEN appended
                 ELSE FilterLinks_late(Tail(link_elements), appended, max_links)
            ELSE FilterLinks_late(Tail(link_elements), article_links, max_links)

RECURSIVE FilterLinks(_, _, _)
\* The for loop over link_elements: article_links is the list built so far.
FilterLinks(link_elements, article_links, max_links) ==
    IF link_elements = <<>> THEN article_links
    ELSE LET link == Head(link_elements)
             appended == Append(article_links, [text |-> link.text, href |-> link.href])
         IN IF IsArticleLink(link.href)
            THEN IF Len(appended) >= max_links
                 THEN appended
                 ELSE FilterLinks(Tail(link_elements), appended, max_links)
            ELSE FilterLinks(Tail(link_elements), article_links, max_links)

\* The call on a page whose anchors are link_elements.  scan_ok = FALSE:
\* find_elements or get_attribute raised.
ExtractLinks(link_elements, max_links, scan_ok) ==
    IF scan_ok THEN FilterLinks(link_elements, <<>>, max_links) ELSE <<>>

ExtractLinksFromArticle(url, max_links, scan_ok) ==
    ExtractLinks(LinkElements(url), max_links, scan_ok)

(***************************************************************************)
(* extract_article_data                                                    *)
(***************************************************************************)
CategoryLists == { <<>>, << <<"a">>, <<"b">> >> }

\* What the lookups of one extraction meet on the page: "found", or the exception
\* that the lookup raises.  The wait for the title times out when the heading is
\* missing, find_element raises NoSuchElementException when nothing matches, and
\* any driver call may fail with another WebDriverException.
Outcomes ==
    [title : {"found", "TimeoutException"},
     summary : {"found", "NoSuchElementException", "WebDriverException"},
     categories : {"found", "WebDriverException"},
     cats : CategoryLists,
     image : {"found", "NoSuchElementException"}]

\* Whether an except clause for the class handler catches the exception exc: all
\* exceptions of the model are subclasses of Exception, and none is a subclass of
\* NoSuchElementException but itself.
Catches(handler, exc) == handler = "Exception" \/ handler = exc

\* The texts put one after the other, without the separator.
RECURSIVE Join_nosep(_, _)
Join_nosep(sep, texts) ==
    IF texts = <<>> THEN <<>>
    ELSE texts[1] \o Join_nosep(sep, Tail(texts))

RECURSIVE Join(_, _)
\* sep.join(texts)
Join(sep, texts) ==
    IF texts = <<>> THEN <<>>
    ELSE IF Len(texts) = 1 THEN texts[1]
    ELSE texts[1] \o sep \o Join(sep, Tail(texts))

TitleOf(url) == <<"T", url.id>>

\* Lines 144-147: the handler of the summary lookup.
SummaryHandler == "NoSuchElementException"

\* The outer handler catching only a missing element.
OuterHandler_narrow == "NoSuchElementException"

\* Lines 175-177: the handler around the whole extraction.
OuterHandler == "Exception"

\* The record built at lines 143-170, once every lookup has returned or has been
\* replaced by its fallback.  The handlers of the categories and of the image
\* lookup are bare except clauses.
ArticleData(url, o, clock) ==
    [title |-> TitleOf(url),
     url |-> url,
     summary |-> IF o.summary = "found" THEN <<"first paragraph">> ELSE <<SummarySentinel>>,
     categories |-> Join(<<"|">>, IF o.categories = "found" THEN o.cats ELSE <<>>),
     image_url |-> IF o.image = "found" THEN "img" ELSE "",
     date_scraped |-> clock]

\* The exception that leaves the try block of lines 134-174: "none" when the record
\* is built and appended.
ExtractionException(o) ==
    IF o.title # "found" THEN o.title
    ELSE IF o.summary # "found" /\ ~Catches(SummaryHandler, o.summary) THEN o.summary
    ELSE "none"

\* extract_article_data with the record appended twice.
ExtractArticleData_twice(store, url, o, clock) ==
    LET exc == ExtractionException(o)
        data == ArticleData(url, o, clock)
    IN IF exc = "none"
       THEN [ok |-> TRUE, raised |-> FALSE, store |-> Append(Append(store, data), data)]
       ELSE [ok |-> FALSE, raised |-> ~Catches(OuterHandler, exc), store |-> store]

\* extract_article_data with the record store assigned instead of appended to.
ExtractArticleData_replace(store, url, o, clock) ==
    LET exc == ExtractionException(o)
    IN IF exc = "none"
       THEN [ok |-> TRUE, raised |-> FALSE, store |-> <<ArticleData(url, o, clock)>>]
       ELSE [ok |-> FALSE, raised |-> ~Catches(OuterHandler, exc), store |-> store]

\* The call: ok = FALSE is the result None, raised says whether an exception
\* leaves the call, store is the record store after the call.
ExtractArticleData(store, url, o, clock) ==
    LET exc == ExtractionException(o)
    IN IF exc = "none"
       THEN [ok |-> TRUE, raised |-> FALSE, store |-> Append(store, ArticleData(url, o, clock))]
       ELSE [ok |-> FALSE, raised |-> ~Catches(OuterHandler, exc), store |-> store]

\* What is remembered of a call of extract_article_data.
ExtractionLog(o, before, ex) ==
    [o |-> o, before |-> before, ok |-> ex.ok, raised |-> ex.raised, after |-> ex.store]

(***************************************************************************)
(* The state.                                                              *)
(***************************************************************************)
VARIABLES
    pc,               \* the position of main()
    args,             \* the parsed command line
    current_url,      \* driver.current_url
    now,              \* the clock, advanced by the sleeps
    articles_data,    \* self.articles_data, the record store
    visited_urls,     \* locals of crawl_related_articles
    queue,
    articles_crawled,
    crawl_ret,        \* what crawl_related_articles returned: "none" before it has
    crawl_store0,     \* the record store when crawl_related_articles was entered
    crawl_start,      \* the page crawl_related_articles was called on
    crawl_loads,      \* the frontier entries crawl_related_articles loaded, in order
    crawl_enqueued,   \* the URLs crawl_related_articles appended to the queue, in order
    extraction,       \* the latest call of extract_article_data, if any
    csv_file,         \* what save_to_csv did: "none", "skipped", "failed" or "written"
    main_return,      \* the early return of main: "none", "navigate" or "search"
    articles_collected, \* local of collect_random_articles
    random_call,      \* the call of collect_random_articles, if any
    featured_call,    \* the call of extract_featured_articles, if any
    db_table,         \* the committed rows of the table articles
    db_result,        \* what save_to_database did: "none", "skipped", "failed", "committed"
    links_call,       \* a call of extract_links_from_article on its own, if any
    join_call         \* the categories field built from a list of categories, if any

vars == <<pc, args, current_url, now, articles_data, visited_urls, queue,
          articles_crawled, crawl_ret, crawl_store0, crawl_start, crawl_loads,
          extraction, csv_file, main_return, articles_collected, random_call,
          featured_call, db_table, db_result, links_call, join_call, crawl_enqueued>>

\* The calls made outside a run of main.
lone_calls == <<links_call, join_call>>

strategy_locals == <<articles_collected, random_call, featured_call>>

db_vars == <<db_table, db_result>>

crawl_locals == <<visited_urls, queue, articles_crawled, crawl_ret, crawl_store0,
                  crawl_start, crawl_loads, crawl_enqueued>>

BlankPage == Url("data:,", "", 0)
BaseUrls == {MainPage, SeedMany, SeedNone, SeedFew, Elsewhere}
SearchLandings == {SeedMany, SeedNone, SeedFew, SearchResults}
\* The branch of main that the flags select (lines 486-500): --search before
\* --featured before --random before --crawl, "default" when none is given.
Strategies == {"search", "featured", "random", "crawl", "default"}

\* The defaults of the command line, lines 460-468.
DefaultDepth == 2
DefaultMaxArticles == 25

\* The command lines of the model.  An option that the selected branch does not
\* read keeps its default.
Args ==
    [url : BaseUrls,
     strategy : {"search", "crawl"},
     depth : (-1)..MaxDepthArg,
     max_articles : (-1)..MaxArticlesArg,
     db : BOOLEAN]
    \cup
    [url : {MainPage},
     strategy : {"featured", "random"},
     depth : {DefaultDepth},
     max_articles : (-1)..MaxArticlesArg,
     db : BOOLEAN]
    \cup
    [url : {MainPage},
     strategy : {"default"},
     depth : {DefaultDepth},
     max_articles : {DefaultMaxArticles},
     db : BOOLEAN]

\* The state of the scraper after construction, before main has navigated.
Constructed ==
    /\ current_url = BlankPage
    /\ now = 0
    /\ articles_data = <<>>
    /\ visited_urls = {}
    /\ queue = <<>>
    /\ articles_crawled = 0
    /\ crawl_ret = "none"
    /\ crawl_store0 = <<>>
    /\ crawl_start = <<>>
    /\ crawl_loads = <<>>
    /\ crawl_enqueued = <<>>
    /\ extraction = <<>>
    /\ csv_file = "none"
    /\ main_return = "none"
    /\ articles_collected = 0
    /\ random_call = <<>>
    /\ featured_call = <<>>
    /\ db_table = <<>>
    /\ db_result = "none"

Init ==
    /\ pc = "main_navigate"
    /\ args \in Args
    /\ Constructed
    /\ links_call = <<>>
    /\ join_call = <<>>

(***************************************************************************)
(* navigate_to_url: the driver state and the clock after the call.         *)
(***************************************************************************)
NavigateToUrl(url, cur, clock, load_ok) ==
    IF load_ok
    THEN [ok |-> TRUE, current_url |-> url, now |-> clock + NavigateSleep]
    ELSE [ok |-> FALSE, current_url |-> cur, now |-> clock]

(***************************************************************************)
(* main, lines 480-483: the initial navigation.                            *)
(***************************************************************************)
MainNavigate ==
    /\ pc = "main_navigate"
    /\ \E load_ok \in BOOLEAN :
        LET nav == NavigateToUrl(args.url, current_url, now, load_ok)
        IN /\ current_url' = nav.current_url
           /\ now' = nav.now
           /\ main_return' = IF nav.ok THEN "none" ELSE "navigate"
           /\ pc' = IF ~nav.ok THEN "close"
                    ELSE IF args.strategy = "default" THEN "featured"
                    ELSE args.strategy
    /\ UNCHANGED <<args, articles_data, crawl_locals, extraction, csv_file,
                   strategy_locals, db_vars, lone_calls>>

(***************************************************************************)
(* search_wikipedia, called from main at line 487.                         *)
(***************************************************************************)
SearchWikipedia ==
    /\ pc = "search"
    /\ \E renav_ok \in BOOLEAN, form_ok \in BOOLEAN, landing \in SearchLandings :
        LET nav == IF OnWikipedia(current_url)
                   THEN [ok |-> TRUE, current_url |-> current_url, now |-> now]
                   ELSE NavigateToUrl(args.url, current_url, now, renav_ok)
        IN IF form_ok
           THEN /\ current_url' = landing
                /\ now' = nav.now + SearchSleep
                /\ pc' = "crawl"
                /\ UNCHANGED main_return
           ELSE /\ current_url' = nav.current_url
                /\ now' = nav.now
                /\ pc' = "close"
                /\ main_return' = "search"
    /\ UNCHANGED <<args, articles_data, crawl_locals, extraction, csv_file,
                   strategy_locals, db_vars, lone_calls>>

(***************************************************************************)
(* crawl_related_articles                                                  *)
(***************************************************************************)
\* The precondition testing the site only, as search_wikipedia does.
IsArticlePage_site(url) == OnWikipedia(url)

\* Line 214: the starting-page precondition.
IsArticlePage(url) == StartsWith(url, ArticlePrefix)

\* The visited set without the starting page.
InitialVisited_empty(start_url) == {}

\* Lines 218-219: the visited set at the start of a crawl.
InitialVisited(start_url) == {start_url}

\* The frontier with the starting page counted as depth 1.
InitialQueue_depth1(start_url) == << [url |-> start_url, depth |-> 1] >>

\* Line 227: the frontier at the start of a crawl.
InitialQueue(start_url) == << [url |-> start_url, depth |-> 0] >>

\* Line 229: the loop condition.
LoopCondition(q, crawled, max_articles) == q # <<>> /\ crawled < max_articles

\* Reading the head of the queue without removing it.
PopFront_peek(q) == q

\* Line 233: queue.pop(0) leaves the rest of the queue.
PopFront(q) == Tail(q)

\* Lines 252-256: the frontier after the harvest of the page just loaded.
RECURSIVE EnqueueLinks(_, _, _, _)
EnqueueLinks(q, links, visited, link_depth) ==
    IF links = <<>> THEN q
    ELSE EnqueueLinks(
            IF Head(links).href \notin visited
            THEN Append(q, [url |-> Head(links).href, depth |-> link_depth])
            ELSE q,
            Tail(links), visited, link_depth)

\* Line 252: whether links are harvested from an entry of depth url_depth.
MayHarvest(url_depth, depth) == url_depth < depth

\* main, lines 490 and 499, returning when the crawl reports failure.
MainAfterCrawl_checked(ret) == IF ret = "False" THEN "close" ELSE "save"

\* main, lines 490 and 499: the result of the crawl is not read, main goes on to
\* line 508.
MainAfterCrawl(ret) == "save"

\* The URLs of the entries of a queue.
QueueUrls(q) == [i \in DOMAIN q |-> q[i].url]

\* Lines 214-227: the precondition, the seed extraction and the set-up of the loop.
CrawlBegin ==
    /\ pc = "crawl"
    /\ crawl_store0' = articles_data
    /\ crawl_loads' = <<>>
    /\ IF ~IsArticlePage(current_url)
       THEN /\ crawl_ret' = "False"
            /\ pc' = MainAfterCrawl("False")
            /\ crawl_start' = <<[url |-> current_url, seed_ok |-> FALSE]>>
            /\ UNCHANGED <<articles_data, visited_urls, queue, articles_crawled,
                           extraction, crawl_enqueued>>
       ELSE \E o \in Outcomes :
            LET ex == ExtractArticleData(articles_data, current_url, o, now)
            IN /\ visited_urls' = InitialVisited(current_url)
               /\ articles_data' = ex.store
               /\ extraction' = <<ExtractionLog(o, articles_data, ex)>>
               /\ crawl_start' = <<[url |-> current_url, seed_ok |-> ex.ok]>>
               /\ articles_crawled' = 1
               /\ queue' = InitialQueue(current_url)
               /\ crawl_enqueued' = QueueUrls(InitialQueue(current_url))
               /\ pc' = "crawl_loop"
               /\ UNCHANGED crawl_ret
    /\ UNCHANGED <<args, current_url, now, csv_file, main_return, strategy_locals,
                   db_vars, lone_calls>>

\* Lines 229-256: one iteration of the while loop.
CrawlStep ==
    /\ pc = "crawl_loop"
    /\ LoopCondition(queue, articles_crawled, args.max_articles)
    /\ LET entry == Head(queue)
           rest == PopFront(queue)
       IN IF entry.url \in visited_urls
          THEN /\ queue' = rest
               /\ UNCHANGED <<pc, current_url, now, articles_data, visited_urls,
                              articles_crawled, crawl_loads, extraction, crawl_enqueued>>
          ELSE \E load_ok \in BOOLEAN, o \in Outcomes, scan_ok \in BOOLEAN :
               LET nav == NavigateToUrl(entry.url, current_url, now, load_ok)
                   visited == visited_urls \cup {entry.url}
                   ex == ExtractArticleData(articles_data, nav.current_url, o, nav.now)
                   crawled == articles_crawled + 1
                   stop == crawled >= args.max_articles
                   harvest == ~stop /\ MayHarvest(entry.depth, args.depth)
                   links == ExtractLinksFromArticle(nav.current_url, CrawlMaxLinks, scan_ok)
                   grown == IF harvest
                            THEN EnqueueLinks(rest, links, visited, entry.depth + 1)
                            ELSE rest
               IN /\ current_url' = nav.current_url
                  /\ now' = nav.now
                  /\ visited_urls' = visited
                  /\ articles_data' = ex.store
                  /\ extraction' = <<ExtractionLog(o, articles_data, ex)>>
                  /\ articles_crawled' = crawled
                  /\ queue' = grown
                  /\ crawl_enqueued' = crawl_enqueued \o
                        QueueUrls(SubSeq(grown, Len(rest) + 1, Len(grown)))
                  /\ pc' = IF stop THEN "crawl_break" ELSE "crawl_loop"
                  /\ crawl_loads' = Append(crawl_loads,
                        [url |-> entry.url, depth |-> entry.depth, load_ok |-> load_ok,
                         appended |-> Len(ex.store) - Len(articles_data),
                         harvested |-> harvest])
    /\ UNCHANGED <<args, crawl_ret, crawl_store0, crawl_start, csv_file, main_return,
                   strategy_locals, db_vars, lone_calls>>

\* Lines 258-259: the loop has ended, by its condition or by the break of line 249.
CrawlReturn ==
    /\ \/ pc = "crawl_break"
       \/ pc = "crawl_loop" /\ ~LoopCondition(queue, articles_crawled, args.max_articles)
    /\ crawl_ret' = "True"
    /\ pc' = MainAfterCrawl("True")
    /\ UNCHANGED <<args, current_url, now, articles_data, visited_urls, queue,
                   articles_crawled, crawl_store0, crawl_start, crawl_loads, crawl_enqueued,
                   extraction, csv_file, main_return, strategy_locals, db_vars,
                   lone_calls>>

(***************************************************************************)
(* extract_featured_articles                                               *)
(***************************************************************************)
ZoneCap == 5
ArchiveCap == 10
ArchivePage == Url(ArticlePrefix, "Wikipedia:", 1)

\* seq[:n]
Take(seq, n) == SubSeq(seq, 1, IF n < Len(seq) THEN n ELSE Len(seq))

\* A list item of a zone of the main page, or a link of the archive listing: what
\* the lookup of its anchor meets, the text of the anchor and its href.
Item(link, text, href) == [link |-> link, text |-> text, href |-> href]

ManyItems(first, n) == [i \in 1..n |-> Item("found", <<"n">>, Art(first + i))]

\* A zone with an item without anchor and an item whose anchor has neither text
\* nor href.
MixedItems(first) ==
    <<Item("found", <<"n">>, Art(first + 1)),
      Item("NoSuchElementException", <<>>, NoHref),
      Item("found", <<>>, NoHref)>>

\* What extract_featured_articles meets: the lead zone ("found" or the exception of
\* the lookups of lines 268-278), the items of the three digests, the links of the
\* archive listing, and the find_elements call that raises, if any.
FeaturedPage(lead, news, dyk, otd, archive, raises) ==
    [lead |-> lead, news |-> news, dyk |-> dyk, otd |-> otd, archive |-> archive,
     raises |-> raises]

FeaturedPages ==
    { FeaturedPage("found", ManyItems(400, ZoneCap + 1), ManyItems(410, ZoneCap + 1),
                   ManyItems(420, ZoneCap + 1), ManyItems(700, ArchiveCap + 2), "none"),
      FeaturedPage("found", <<>>, <<>>, <<>>, ManyItems(700, ArchiveCap + 2), "none"),
      FeaturedPage("found", MixedItems(400), <<>>, ManyItems(420, 2), MixedItems(700),
                   "none"),
      FeaturedPage("TimeoutException", ManyItems(400, 2), <<>>, <<>>,
                   ManyItems(700, 2), "none"),
      FeaturedPage("NoSuchElementException", ManyItems(400, 2), <<>>, <<>>,
                   ManyItems(700, 2), "none"),
      FeaturedPage("found", ManyItems(400, 2), ManyItems(410, 2), <<>>,
                   ManyItems(700, 2), "dyk"),
      FeaturedPage("found", <<>>, <<>>, <<>>, ManyItems(700, 2), "archive") }

\* The records appended at lines 281-288, 299-306, 319-326, 339-346 and 363-370.
LeadRecord(clock) ==
    [title |-> <<"f">>, url |-> Art(399), summary |-> <<"lead paragraph">>,
     categories |-> <<"Featured">>, image_url |-> "", date_scraped |-> clock]

ZoneRecord(item, label, clock) ==
    [title |-> item.text, url |-> item.href, summary |-> <<"item text">>,
     categories |-> <<label>>, image_url |-> "", date_scraped |-> clock]

ArchiveRecord(item, clock) ==
    [title |-> item.text, url |-> item.href,
     summary |-> <<"Featured article archive: ">> \o item.text,
     categories |-> <<"Featured archive">>, image_url |-> "", date_scraped |-> clock]

\* The loops of lines 292-308, 312-328 and 332-348: an item whose anchor lookup
\* raises is passed over.
RECURSIVE HarvestZone(_, _, _, _)
HarvestZone(store, items, label, clock) ==
    IF items = <<>> THEN store
    ELSE HarvestZone(
            IF Head(items).link = "found"
            THEN Append(store, ZoneRecord(Head(items), label, clock))
            ELSE store,
            Tail(items), label, clock)

\* Line 351: whether the archive listing is visited.
NeedsArchive(store, count) == Len(store) < count

\* The loop of lines 355-372.
RECURSIVE TopUpFromArchive(_, _, _, _)
TopUpFromArchive(store, links, count, clock) ==
    IF links = <<>> \/ Len(store) >= count THEN store
    ELSE TopUpFromArchive(
            IF Head(links).link = "found"
            THEN Append(store, ArchiveRecord(Head(links), clock))
            ELSE store,
            Tail(links), count, clock)

\* The call: ret is the result, store the record store after the call,
\* current_url and now the driver state and the clock after it.
ExtractFeaturedArticles(store, page, count, cur, clock, load_ok, archive_load_ok) ==
    LET nav == NavigateToUrl(MainPage, cur, clock, load_ok)
        failed(st, n) ==
            [ret |-> FALSE, store |-> st, current_url |-> n.current_url, now |-> n.now]
        lead == Append(store, LeadRecord(nav.now))
        news == HarvestZone(lead, Take(page.news, ZoneCap), "In the news", nav.now)
        dyk == HarvestZone(news, Take(page.dyk, ZoneCap), "Did you know", nav.now)
        otd == HarvestZone(dyk, Take(page.otd, ZoneCap), "On this day", nav.now)
        nav2 == NavigateToUrl(ArchivePage, nav.current_url, nav.now, archive_load_ok)
    IN IF page.lead # "found" THEN failed(store, nav)
       ELSE IF page.raises = "news" THEN failed(lead, nav)
       ELSE IF page.raises = "dyk" THEN failed(news, nav)
       ELSE IF page.raises = "otd" THEN failed(dyk, nav)
       ELSE IF ~NeedsArchive(otd, count)
       THEN [ret |-> TRUE, store |-> otd, current_url |-> nav.current_url, now |-> nav.now]
       ELSE IF page.raises = "archive" THEN failed(otd, nav2)
       ELSE [ret |-> TRUE,
             store |-> TopUpFromArchive(otd, Take(page.archive, ArchiveCap), count, nav2.now),
             current_url |-> nav2.current_url, now |-> nav2.now]

\* main, lines 493 and 502-505: the targets of the default branch.
DefaultFeaturedCount == 10
DefaultTotal == 20

\* Line 493 or 502: the argument of extract_featured_articles.
FeaturedCount == IF args.strategy = "default" THEN DefaultFeaturedCount ELSE args.max_articles

\* Lines 504-505: whether the default branch samples random articles.
NeedsTopUp(store) == Len(store) < DefaultTotal

\* The top-up of the default branch with the target of the featured harvest.
TopUpCount_half(store) == DefaultTotal - DefaultFeaturedCount

\* Line 505: the count given to collect_random_articles by the default branch.
TopUpCount(store) == DefaultTotal - Len(store)

FeaturedArticles ==
    /\ pc = "featured"
    /\ \E page \in FeaturedPages, load_ok \in BOOLEAN, archive_load_ok \in BOOLEAN :
        LET call == ExtractFeaturedArticles(articles_data, page, FeaturedCount,
                                            current_url, now, load_ok, archive_load_ok)
        IN /\ articles_data' = call.store
           /\ current_url' = call.current_url
           /\ now' = call.now
           /\ featured_call' = <<[count |-> FeaturedCount, page |-> page,
                                  store0 |-> articles_data, ret |-> call.ret]>>
           /\ pc' = IF args.strategy = "default" /\ NeedsTopUp(call.store)
                    THEN "random" ELSE "save"
    /\ UNCHANGED <<args, crawl_locals, extraction, csv_file, main_return,
                   articles_collected, random_call, db_vars, lone_calls>>

(***************************************************************************)
(* collect_random_articles                                                 *)
(***************************************************************************)
RandomSleep == 1

\* The article that the n-th load of Special:Random lands on.
RandomArticle(n) == Art(500 + n)

\* What the extractions of the random sampling meet: a complete page, or a page
\* without title element.
SampledOutcomes ==
    {o \in Outcomes : /\ o.summary = "found" /\ o.categories = "found"
                      /\ o.cats = <<>> /\ o.image = "found"}

\* The loop going on until the counter exceeds the count.
RandomContinues_inclusive(collected, count) == collected <= count

\* Line 385: the loop condition.
RandomContinues(collected, count) == collected < count

\* The counter raised by every iteration.
Collected_always(collected, extracted) == collected + 1

\* Lines 391-392: the counter after an iteration.
Collected(collected, extracted) == IF extracted THEN collected + 1 ELSE collected

\* Line 496 or 505: the argument of collect_random_articles.
RandomCount ==
    IF args.strategy = "default" THEN TopUpCount(articles_data) ELSE args.max_articles

\* Line 383: the call starts.
RandomBegin ==
    /\ pc = "random"
    /\ articles_collected' = 0
    /\ random_call' = <<[count |-> RandomCount, store0 |-> articles_data, loads |-> 0,
                         succeeded |-> 0, failed |-> 0, failed_iterations |-> 0,
                         last_load_ok |-> TRUE, ret |-> "none"]>>
    /\ pc' = "random_loop"
    /\ UNCHANGED <<args, current_url, now, articles_data, crawl_locals, extraction,
                   csv_file, main_return, featured_call, db_vars, lone_calls>>

\* Lines 385-394: one iteration of the loop.  At most MaxFailedIterations
\* iterations of a call meet a failed load or a failed extraction.
RandomStep ==
    /\ pc = "random_loop"
    /\ RandomContinues(articles_collected, random_call[1].count)
    /\ \E load_ok \in BOOLEAN, o \in SampledOutcomes :
        LET call == random_call[1]
            nav == NavigateToUrl(RandomArticle(call.loads), current_url, now, load_ok)
            ex == ExtractArticleData(articles_data, nav.current_url, o, nav.now)
            failure == ~load_ok \/ ~ex.ok
        IN /\ failure => call.failed_iterations < MaxFailedIterations
           /\ current_url' = nav.current_url
           /\ now' = nav.now + RandomSleep
           /\ articles_data' = ex.store
           /\ extraction' = <<ExtractionLog(o, articles_data, ex)>>
           /\ articles_collected' = Collected(articles_collected, ex.ok)
           /\ random_call' = <<[call EXCEPT
                                  !.loads = @ + 1,
                                  !.succeeded = IF ex.ok THEN @ + 1 ELSE @,
                                  !.failed = IF ex.ok THEN @ ELSE @ + 1,
                                  !.failed_iterations = IF failure THEN @ + 1 ELSE @,
                                  !.last_load_ok = load_ok]>>
    /\ UNCHANGED <<pc, args, crawl_locals, csv_file, main_return, featured_call, db_vars,
                   lone_calls>>

\* Lines 396-397: the loop has ended.
RandomReturn ==
    /\ pc = "random_loop"
    /\ ~RandomContinues(articles_collected, random_call[1].count)
    /\ random_call' = <<[random_call[1] EXCEPT !.ret = "True"]>>
    /\ pc' = "save"
    /\ UNCHANGED <<args, current_url, now, articles_data, crawl_locals, extraction,
                   csv_file, main_return, articles_collected, featured_call, db_vars,
                   lone_calls>>

(***************************************************************************)
(* save_to_csv, called from main at line 508.                              *)
(***************************************************************************)
SaveToCsv ==
    /\ pc = "save"
    /\ \E write_ok \in BOOLEAN :
        csv_file' = IF articles_data = <<>> THEN "skipped"
                    ELSE IF write_ok THEN "written" ELSE "failed"
    /\ pc' = IF args.db THEN "save_db" ELSE "close"
    /\ UNCHANGED <<args, current_url, now, articles_data, crawl_locals, extraction,
                   main_return, strategy_locals, db_vars, lone_calls>>

(***************************************************************************)
(* save_to_database, called from main at line 510 when --db is given.      *)
(***************************************************************************)
\* The row inserted for a record, lines 427-437.
DbRow(article) ==
    <<article.title, article.url, article.summary, article.categories,
      article.image_url, article.date_scraped>>

SaveToDatabase ==
    /\ pc = "save_db"
    /\ \E commit_ok \in BOOLEAN :
        IF ~args.db \/ articles_data = <<>>
        THEN /\ db_result' = "skipped"
             /\ UNCHANGED db_table
        ELSE IF commit_ok
        THEN /\ db_result' = "committed"
             /\ db_table' = db_table \o [i \in DOMAIN articles_data |-> DbRow(articles_data[i])]
        ELSE /\ db_result' = "failed"
             /\ UNCHANGED db_table
    /\ pc' = "close"
    /\ UNCHANGED <<args, current_url, now, articles_data, crawl_locals, extraction,
                   csv_file, main_return, strategy_locals, lone_calls>>

(***************************************************************************)
(* close, called from the finally clause of main.                          *)
(***************************************************************************)
Close ==
    /\ pc = "close"
    /\ pc' = "done"
    /\ UNCHANGED <<args, current_url, now, articles_data, crawl_locals, extraction,
                   csv_file, main_return, strategy_locals, db_vars, lone_calls>>

(***************************************************************************)
(* extract_links_from_article called on its own, on a page with any anchors *)
(* and with any cap.                                                       *)
(***************************************************************************)
AnchorPool ==
    {Anchor(Art(1)), Anchor(Art(2)), Anchor(NoHref),
     Anchor(Url(ArticlePrefix, "Talk:", 1)), Anchor(Url(ArticlePrefix, "File:", 3))}

AnchorSeqs == UNION {[1..n -> AnchorPool] : n \in 0..MaxAnchors}

LinksCalls ==
    [link_elements : AnchorSeqs, max_links : 0..MaxLinksArg, scan_ok : BOOLEAN,
     returned : {FALSE}, result : {<<>>}]

LinksInit ==
    /\ pc = "links"
    /\ args = [url |-> MainPage, strategy |-> "default", depth |-> DefaultDepth,
               max_articles |-> DefaultMaxArticles, db |-> FALSE]
    /\ Constructed
    /\ \E call \in LinksCalls : links_call = <<call>>
    /\ join_call = <<>>

ExtractLinksCall ==
    /\ pc = "links"
    /\ LET call == links_call[1]
       IN links_call' = <<[call EXCEPT
                            !.returned = TRUE,
                            !.result = ExtractLinks(call.link_elements, call.max_links,
                                                    call.scan_ok)]>>
    /\ pc' = "links_done"
    /\ UNCHANGED <<args, current_url, now, articles_data, crawl_locals, extraction,
                   csv_file, main_return, strategy_locals, db_vars, join_call>>

LinksNext == ExtractLinksCall

LinksSpec == LinksInit /\ [][LinksNext]_vars

(***************************************************************************)
(* The categories field of a record, built from any list of category texts *)
(* as extract_article_data builds it.                                      *)
(***************************************************************************)
Texts(chars, n) == UNION {[1..k -> chars] : k \in 0..n}

CategoryTexts == Texts({"a", "|"}, MaxCategoryLen)

CategorySeqs == UNION {[1..k -> CategoryTexts] : k \in 0..MaxCategories}

JoinInit ==
    /\ pc = "join"
    /\ args = [url |-> MainPage, strategy |-> "default", depth |-> DefaultDepth,
               max_articles |-> DefaultMaxArticles, db |-> FALSE]
    /\ Constructed
    /\ links_call = <<>>
    /\ \E cats \in CategorySeqs :
        join_call = <<[categories |-> cats, built |-> FALSE, field |-> <<>>]>>

\* Lines 149-170 on a page whose lookups all succeed: the categories field of the
\* record.
BuildCategoriesField ==
    /\ pc = "join"
    /\ LET call == join_call[1]
           o == [title |-> "found", summary |-> "found", categories |-> "found",
                 cats |-> call.categories, image |-> "found"]
       IN join_call' = <<[call EXCEPT
                           !.built = TRUE,
                           !.field = ArticleData(MainPage, o, now).categories]>>
    /\ pc' = "join_done"
    /\ UNCHANGED <<args, current_url, now, articles_data, crawl_locals, extraction,
                   csv_file, main_return, strategy_locals, db_vars, links_call>>

JoinNext == BuildCategoriesField

JoinSpec == JoinInit /\ [][JoinNext]_vars

Next ==
    \/ MainNavigate
    \/ SearchWikipedia
    \/ CrawlBegin
    \/ CrawlStep
    \/ CrawlReturn
    \/ FeaturedArticles
    \/ RandomBegin
    \/ RandomStep
    \/ RandomReturn
    \/ SaveToCsv
    \/ SaveToDatabase
    \/ Close

Spec == Init /\ [][Next]_vars

\* The program runs on: each step that can be taken is eventually taken.
FairSpec == Spec /\ WF_vars(Next)

(***************************************************************************)
(* Properties of crawl_related_articles.                                   *)
(***************************************************************************)
CrawlEntered == crawl_start # <<>>
CrawlReturned == crawl_ret # "none"
CrawlAppended == Len(articles_data) - Len(crawl_store0)
AllLoadsSucceeded ==
    \A i \in DOMAIN crawl_loads : crawl_loads[i].load_ok /\ crawl_loads[i].appended = 1

\* A crawl called on the page with SeedLinks valid distinct links, depth 1 and
\* budget 5, in which every load and extraction succeeded, has returned.
ManyLinksScenario ==
    /\ crawl_ret = "True"
    /\ args.depth = 1 /\ args.max_articles = 5
    /\ crawl_start[1].url = SeedMany /\ crawl_start[1].seed_ok
    /\ AllLoadsSucceeded

\* C1: a crawl with depth 1 and max_articles 5 on a page with 30 valid distinct
\* links, all loads and extractions succeeding, appends exactly 5 records and
\* returns with entries left in the frontier queue.
C1_FiveRecordsFrontierLeft ==
    ManyLinksScenario => CrawlAppended = 5 /\ queue # <<>>

\* C2: in every state of a crawl with max_articles >= 1 the number of records the
\* call has appended to the record store is at most max_articles.
C2_AtMostMaxArticles ==
    CrawlEntered /\ args.max_articles >= 1 => CrawlAppended <= args.max_articles

\* The budget is met exactly: a crawl with max_articles 1 has appended one record.
C2_Witness ==
    CrawlReturned /\ args.max_articles = 1 /\ CrawlAppended = 1

\* No frontier entry is ever loaded by the loop of crawl_related_articles: the
\* only entry the frontier ever holds is the starting page, which is visited.
NoFrontierLoad == crawl_loads = <<>>

\* C3: the depths of the frontier entries that the crawl loads and extracts never
\* decrease, so every depth-1 page is extracted before any depth-2 page.  With
\* NoFrontierLoad it holds of the empty sequence of loads only.
C3_LevelOrder ==
    \A i, j \in DOMAIN crawl_loads :
        i < j => crawl_loads[i].depth <= crawl_loads[j].depth

\* C8: a frontier entry whose load failed is skipped: no record is appended for
\* it and no links are harvested on its behalf.  With NoFrontierLoad no entry is
\* ever loaded, so no load of the crawl loop can fail.
C8_FailedLoadSkipped ==
    \A i \in DOMAIN crawl_loads :
        ~crawl_loads[i].load_ok =>
            crawl_loads[i].appended = 0 /\ ~crawl_loads[i].harvested

\* C4: in every state of a crawl with depth >= 0, every frontier entry (url, d)
\* has 0 <= d <= depth.
C4_FrontierDepthBounded ==
    CrawlEntered /\ args.depth >= 0 =>
        \A i \in DOMAIN queue : 0 <= queue[i].depth /\ queue[i].depth <= args.depth

\* The frontier holds an entry while the crawl runs with depth 0.
C4_Witness ==
    pc = "crawl_loop" /\ args.depth = 0 /\ queue # <<>>

\* C5: every call of crawl_related_articles with max_articles >= 1 returns.
C5_CrawlTerminates ==
    (pc = "crawl" /\ args.max_articles >= 1) ~> CrawlReturned

\* A crawl that passed the precondition, with max_articles >= 2 so that the loop
\* was entered, has returned.
C5_Witness ==
    crawl_ret = "True" /\ args.max_articles >= 2 /\ args.depth >= 1

\* C6: crawl_related_articles returns False exactly when the loaded URL does not
\* start with the article-path prefix, and then it has loaded no page, extracted
\* nothing and left the record store as it was; otherwise it returns True.
C6_FalseIffNotArticle ==
    CrawlReturned =>
        /\ crawl_ret = "False" <=> crawl_start[1].url.base # ArticlePrefix
        /\ crawl_ret # "False" => crawl_ret = "True"
        /\ crawl_ret = "False" =>
            /\ articles_data = crawl_store0
            /\ crawl_loads = <<>>
            /\ extraction = <<>>
            /\ current_url = crawl_start[1].url

\* The crawl was called on the search result listing and returned False.
C6_Witness ==
    crawl_ret = "False" /\ crawl_start[1].url = SearchResults

\* A crawl with depth 2 and budget 5 on the page without valid links, whose
\* extraction succeeded, has returned.
NoLinksScenario ==
    /\ crawl_ret = "True"
    /\ args.depth = 2 /\ args.max_articles = 5
    /\ crawl_start[1].url = SeedNone /\ crawl_start[1].seed_ok

\* C7: a crawl with depth 2 and max_articles 5 on a page with no valid outbound
\* link and a successful seed extraction appends exactly 1 record and returns
\* with the frontier queue empty.
C7_OnlySeedRecord ==
    NoLinksScenario => CrawlAppended = 1 /\ queue = <<>>

C7_Witness == NoLinksScenario

(***************************************************************************)
(* Properties of extract_article_data.                                     *)
(***************************************************************************)
\* C9: when the title element cannot be found, extract_article_data returns
\* None, raises nothing and leaves the record store unchanged.
C9_NoTitleNoRecord ==
    \A i \in DOMAIN extraction :
        extraction[i].o.title # "found" =>
            /\ ~extraction[i].ok
            /\ ~extraction[i].raised
            /\ extraction[i].after = extraction[i].before

\* An extraction has run on a page without title element.
C9_Witness ==
    extraction # <<>> /\ extraction[1].o.title = "TimeoutException"

\* C10: when the title lookup succeeds, any failure in the summary, categories or
\* image lookup is replaced by the fallback of that field: the call returns a
\* record and appends exactly one record.
C10_OnlyTitleLoadBearing ==
    \A i \in DOMAIN extraction :
        LET e == extraction[i]
        IN e.o.title = "found" =>
            /\ e.ok /\ ~e.raised
            /\ Len(e.after) = Len(e.before) + 1
            /\ SubSeq(e.after, 1, Len(e.before)) = e.before
            /\ LET r == e.after[Len(e.after)]
               IN /\ e.o.summary # "found" => r.summary = <<SummarySentinel>>
                  /\ e.o.categories # "found" => r.categories = <<>>
                  /\ e.o.image # "found" => r.image_url = ""

(***************************************************************************)
(* Properties of the record store.                                         *)
(***************************************************************************)
RecordKeys == {"title", "url", "summary", "categories", "image_url", "date_scraped"}

\* C11: every record of the record store has the six keys title, url, summary,
\* categories, image_url and date_scraped, and its title and url are not empty.
C11_RecordsWellFormed ==
    \A i \in DOMAIN articles_data :
        /\ DOMAIN articles_data[i] = RecordKeys
        /\ articles_data[i].title # <<>>
        /\ articles_data[i].url.base # ""

\* C18: the record store is append-only: every step of a run, an export that
\* fails or succeeds included, leaves the records it held as a prefix of the
\* records it holds afterwards.
C18_AppendOnly ==
    [][/\ Len(articles_data) <= Len(articles_data')
       /\ SubSeq(articles_data', 1, Len(articles_data)) = articles_data]_vars

\* Both exports have failed on a store that holds records.
C18_Witness ==
    /\ csv_file = "failed" /\ db_result = "failed"
    /\ Len(articles_data) >= 2

(***************************************************************************)
(* Properties of extract_links_from_article.                               *)
(***************************************************************************)
LinksCalled == links_call # <<>> /\ links_call[1].returned

\* The anchors whose href is not empty and holds none of the markers, as pairs of
\* text and href.
IsCandidate(anchor) ==
    /\ anchor.href # NoHref
    /\ anchor.href.ns \notin {"Special:", "Category:", "File:", "Help:", "Wikipedia:", "Talk:"}

Candidates(anchors) == SelectSeq(anchors, IsCandidate)

\* C12: for every sequence of anchors and every cap max_links >= 1, a scan that
\* does not fail returns exactly the first min(max_links, k) of the k anchors
\* whose href is not empty and holds no marker, in document order.
C12_FirstCandidatesInOrder ==
    LinksCalled /\ links_call[1].scan_ok /\ links_call[1].max_links >= 1 =>
        LET call == links_call[1]
            valid == Candidates(call.link_elements)
            n == IF call.max_links < Len(valid) THEN call.max_links ELSE Len(valid)
        IN /\ call.result = SubSeq(valid, 1, n)
           /\ Len(call.result) <= call.max_links
           /\ \A i \in DOMAIN call.result : IsCandidate(call.result[i])

\* The scan met more candidates than the cap, and anchors that are no candidates.
C12_Witness ==
    /\ LinksCalled /\ links_call[1].scan_ok /\ links_call[1].max_links >= 1
    /\ Len(Candidates(links_call[1].link_elements)) > links_call[1].max_links
    /\ Len(Candidates(links_call[1].link_elements)) < Len(links_call[1].link_elements)
    /\ Len(links_call[1].result) = links_call[1].max_links

(***************************************************************************)
(* Properties of main.                                                     *)
(***************************************************************************)
\* C13 as stated: in every run of main, whatever errors occur, save_to_csv has
\* been attempted when the session is closed.
C13_ExportAlwaysAttempted ==
    pc = "done" => csv_file # "none"

\* C13: in every run of main whose initial navigation and whose search, if any,
\* succeed, save_to_csv has been attempted before the session is closed,
\* whatever the strategy returns and also when the record store is empty; when
\* the initial navigation or the search fails, main returns without the export.
C13_ExportUnlessEarlyReturn ==
    pc \in {"close", "done"} =>
        IF main_return = "none" THEN csv_file # "none" ELSE csv_file = "none"

\* The crawl failed its precondition, the store is empty, and the export was
\* attempted before the session was closed.
C13_Witness ==
    pc = "close" /\ crawl_ret = "False" /\ articles_data = <<>> /\ csv_file = "skipped"

\* C14: in a run without strategy flag whose initial navigation succeeds, the
\* featured harvest runs with target 10, and when the run reaches the export the
\* record store holds exactly 20 records, whatever the harvest produced.
C14_DefaultRunCollectsTwenty ==
    args.strategy = "default" /\ pc = "save" =>
        /\ featured_call # <<>> /\ featured_call[1].count = 10
        /\ Len(articles_data) = 20

\* A default run reaches the export after a featured harvest that failed
\* without a record.
C14_Witness ==
    /\ args.strategy = "default" /\ pc = "save"
    /\ ~featured_call[1].ret
    /\ random_call # <<>> /\ random_call[1].count = 20

(***************************************************************************)
(* Properties of collect_random_articles.                                  *)
(***************************************************************************)
RandomReturned == random_call # <<>> /\ random_call[1].ret # "none"
RandomAppended == Len(articles_data) - Len(random_call[1].store0)

\* C15: when collect_random_articles(count) has returned, it has appended
\* max(count, 0) records, one for each successful extraction, and it has issued
\* as many page loads as it has run successful and failed extractions.
C15_RandomCounts ==
    RandomReturned =>
        LET call == random_call[1]
        IN /\ RandomAppended = (IF call.count > 0 THEN call.count ELSE 0)
           /\ call.succeeded = RandomAppended
           /\ call.loads = call.succeeded + call.failed

\* The call has returned after an extraction that failed.
C15_Witness ==
    RandomReturned /\ random_call[1].count >= 2 /\ random_call[1].failed >= 1

RECURSIVE SplitFrom(_, _, _)
SplitFrom(text, sep, piece) ==
    IF text = <<>> THEN <<piece>>
    ELSE IF Head(text) = sep THEN <<piece>> \o SplitFrom(Tail(text), sep, <<>>)
    ELSE SplitFrom(Tail(text), sep, Append(piece, Head(text)))

Split(text, sep) == SplitFrom(text, sep, <<>>)

JoinBuilt == join_call # <<>> /\ join_call[1].built

HasPipe(text) == \E i \in DOMAIN text : text[i] = "|"

\* C17 as stated: for every sequence of category texts, the empty one included,
\* the split of the categories field on the pipe is the sequence.
C17_SplitRestoresCategories ==
    JoinBuilt => Split(join_call[1].field, "|") = join_call[1].categories

\* C17: for every sequence of at least one category text, none of which holds
\* the pipe, the split of the categories field on the pipe is the sequence.
C17_SplitRestoresPipeFreeCategories ==
    /\ JoinBuilt /\ join_call[1].categories # <<>>
    /\ \A i \in DOMAIN join_call[1].categories : ~HasPipe(join_call[1].categories[i])
    => Split(join_call[1].field, "|") = join_call[1].categories

\* The field was built from two categories without pipe.
C17_Witness ==
    /\ JoinBuilt /\ Len(join_call[1].categories) = 2
    /\ \A i \in DOMAIN join_call[1].categories :
        join_call[1].categories[i] # <<>> /\ ~HasPipe(join_call[1].categories[i])

C20_StopsOnExhaustionOrBudget ==
    crawl_ret = "True" /\ args.max_articles >= 1 =>
        queue = <<>> \/ CrawlAppended = args.max_articles

(***************************************************************************)
(* Properties of extract_featured_articles.                                *)
(***************************************************************************)
\* The call has returned and no later call has touched the record store.
FeaturedReturned ==
    featured_call # <<>> /\ pc \in {"random", "save"} /\ random_call = <<>>

FeaturedAppended ==
    SubSeq(articles_data, Len(featured_call[1].store0) + 1, Len(articles_data))

\* The items of a zone that give a record: those among the first ZoneCap whose
\* anchor is found.
ZoneYield(items) == Len(SelectSeq(Take(items, ZoneCap), LAMBDA it : it.link = "found"))

Labelled(records, label) ==
    Len(SelectSeq(records, LAMBDA rec : rec.categories = <<label>>))

\* C21: when the lead zone or its title link cannot be found and no other
\* lookup fails, extract_featured_articles still reports success, holds one
\* record for every item with an anchor among the first 5 of the news, trivia and
\* on-this-day zones, and tops up from the archive listing while the store is
\* below the count.
C21_LeadFailureContained ==
    /\ FeaturedReturned
    /\ featured_call[1].page.lead # "found"
    /\ featured_call[1].page.raises = "none"
    => LET page == featured_call[1].page
           zones == ZoneYield(page.news) + ZoneYield(page.dyk) + ZoneYield(page.otd)
       IN /\ featured_call[1].ret
          /\ Labelled(FeaturedAppended, "In the news") = ZoneYield(page.news)
          /\ Labelled(FeaturedAppended, "Did you know") = ZoneYield(page.dyk)
          /\ Labelled(FeaturedAppended, "On this day") = ZoneYield(page.otd)
          /\ Len(featured_call[1].store0) + zones < featured_call[1].count
                /\ (\E i \in DOMAIN page.archive : page.archive[i].link = "found")
             => Labelled(FeaturedAppended, "Featured archive") >= 1

(***************************************************************************)
(* Further properties of collect_random_articles.                          *)
(***************************************************************************)
\* C22: an iteration of collect_random_articles whose page load failed appends
\* no record and does not raise the counter of collected articles.
C22_FailedLoadYieldsNoRecord ==
    [][/\ pc = "random_loop"
       /\ random_call'[1].loads > random_call[1].loads
       /\ ~random_call'[1].last_load_ok
       => /\ articles_data' = articles_data
          /\ articles_collected' = articles_collected]_vars

====
